---------------------------- MODULE Spec2Model ----------------------------
(***************************************************************************)
(* Model of the mostro escrow daemon:                                      *)
(*   - fiat_sent_action (src/src/app/fiat_sent.rs), the handler of a       *)
(*     FiatSent protocol message, one step per await point;                *)
(*   - LndConnector::send_payment (src/src/lightning/mod.rs), the outbound *)
(*     payment with its track-before-send guard, one step per await point; *)
(*   - LndConnector::create_hold_invoice, settle_hold_invoice and          *)
(*     cancel_hold_invoice, one step up to the request and one for the     *)
(*     node's answer;                                                      *)
(*   - LndConnector::subscribe_invoice, one step per await point.          *)
(* Spec is the handler's specification, SpecSeq the handler called one     *)
(* call at a time, SpecPay the payment's, SpecHold the hold invoices',     *)
(* SpecSub the subscription's.                                             *)
(***************************************************************************)
EXTENDS Integers, Sequences, FiniteSets, TLC

(***************************************************************************)
(* Bounds                                                                  *)
(***************************************************************************)
\* invocations of fiat_sent_action (they may overlap or follow one another)
MaxCalls == 2
\* invocations of send_payment (they may overlap or follow one another)
MaxPayCalls == 2
\* updates the payment node delivers, over all payment streams
MaxUpdates == 2
\* invocations of the hold-invoice operations
MaxHoldCalls == 3
\* invocations of subscribe_invoice
MaxSubs == 2
\* invoices the node delivers, over all invoice streams
MaxInvoiceUpdates == 2

Calls == 1..MaxCalls
PayCalls == 1..MaxPayCalls
HoldCalls == 1..MaxHoldCalls
Subs == 1..MaxSubs

(***************************************************************************)
(* Option<T> and Result                                                    *)
(***************************************************************************)
None == <<>>
Some(x) == <<x>>
Unwrap(o) == o[1]

(***************************************************************************)
(* Identities.  An XOnlyPublicKey is a key name; its bech32 form is what   *)
(* the order record stores and what Peer carries.                          *)
(***************************************************************************)
PubKeys == {"B", "S", "X"}

to_bech32(pk) == <<"npub", pk>>

\* Ok(pk) for a well-formed npub string, Err otherwise
from_bech32(s) ==
    IF Len(s) = 2 /\ s[1] = "npub" /\ s[2] \in PubKeys
    THEN [ok |-> TRUE, val |-> s[2]]
    ELSE [ok |-> FALSE, val |-> "?"]

(***************************************************************************)
(* Orders                                                                  *)
(***************************************************************************)
Statuses == {"Pending", "Active", "FiatSent", "Settled", "Canceled",
             "CooperativelyCanceled", "Disputed"}

OrderIds == {42, 99}
\* the ids the store holds a record for; every other id is absent
StoredIds == {42}

\* the records the store may hold for an id: any status, the buyer and the
\* seller each assigned or not yet
OrderRecords(id) ==
    [id : {id},
     status : Statuses,
     buyer_pubkey : {None, Some(to_bech32("B"))},
     seller_pubkey : {None, Some(to_bech32("S"))}]

(***************************************************************************)
(* Protocol messages                                                       *)
(***************************************************************************)
\* messages::cant_do(), the text of a CantDo
cant_do == <<"text", "cant_do">>

TextMessage(t) == [kind |-> "TextMessage", val |-> t]
Peer(bech) == [kind |-> "Peer", val |-> bech]

\* Message::new(version, order_id, action, content)
NewMessage(version, order_id, action, content) ==
    [version |-> version, order_id |-> order_id, action |-> action,
     content |-> content]

VARIABLES
    \* OrderStore: the order records by id
    orders,
    \* every write the store performed: <<order id, status, call>>
    saves,
    \* every direct message handed to the transport and delivered
    dms,
    \* per call of fiat_sent_action: position, arguments, locals, result
    pc, msg_order_id, event_pubkey, order, seller_pubkey, ret,
    \* per call of send_payment: position, arguments, locals
    ppc, payment_request, amount, track, stream, listener,
    \* every send request the payment node received, in order
    node_log,
    \* per hold-invoice call: position, locals, result
    hpc, hold_local, hold_ret,
    \* the node's hold invoices: state by payment hash
    invoices,
    \* every hold-invoice request the node received, in order
    hold_log,
    \* the process environment's HOLD_INVOICE_CLTV_DELTA
    cltv_env,
    \* per call of subscribe_invoice: position, argument, the invoices the
    \* node delivered on its stream, the messages its listener received
    spc, r_hash, invoice_stream, invoice_listener

fiatVars == <<orders, saves, dms, pc, msg_order_id, event_pubkey, order,
              seller_pubkey, ret>>
payVars == <<ppc, payment_request, amount, track, stream, listener, node_log>>
holdVars == <<hpc, hold_local, hold_ret, invoices, hold_log, cltv_env>>
subVars == <<spc, r_hash, invoice_stream, invoice_listener>>
vars == <<orders, saves, dms, pc, msg_order_id, event_pubkey, order,
          seller_pubkey, ret, ppc, payment_request, amount, track,
          stream, listener, node_log, hpc, hold_local, hold_ret, invoices,
          hold_log, cltv_env, spc, r_hash, invoice_stream, invoice_listener>>

(***************************************************************************)
(* Collaborators of fiat_sent_action                                       *)
(***************************************************************************)
\* Order::by_id: the record of the id, if the store holds one
by_id(store, id) == IF id \in DOMAIN store THEN Some(store[id]) ELSE None

\* util::update_order_event: the store sets the status of the order's row
update_order_event(store, status, o) ==
    [store EXCEPT ![o.id] = [@ EXCEPT !.status = status]]

\* util::send_dm: the transport delivers `message` to `to`
send_dm(sent, to, message, c) ==
    Append(sent, [to |-> to, message |-> message, call |-> c])

(***************************************************************************)
(* fiat_sent_action                                                        *)
(***************************************************************************)
\* A call's result is "Ok", "Err:<the call that failed>" or "Panic:unwrap".

\* the handler returns `r` (or unwinds, for a panic)
Return(c, r) ==
    /\ pc' = [pc EXCEPT ![c] = "done"]
    /\ ret' = [ret EXCEPT ![c] = r]

Goto(c, label) ==
    /\ pc' = [pc EXCEPT ![c] = label]
    /\ UNCHANGED ret

\* the caller hands the handler a message and the event that carried it
Invoke(c, oid, pk) ==
    /\ pc[c] = "idle"
    /\ \A d \in Calls : d < c => pc[d] # "idle"
    /\ msg_order_id' = [msg_order_id EXCEPT ![c] = oid]
    /\ event_pubkey' = [event_pubkey EXCEPT ![c] = pk]
    /\ IF oid = None
       THEN Return(c, "Panic:unwrap")
       ELSE Goto(c, "by_id")
    /\ UNCHANGED <<orders, saves, dms, order, seller_pubkey>>
    /\ UNCHANGED <<payVars, holdVars, subVars>>

\* a status check that also lets a Pending order through
WrongStatus_AcceptsPending(o) == o.status \notin {"Active", "Pending"}

\* a status check that also lets a Settled order through
WrongStatus_AcceptsSettled(o) == o.status \notin {"Active", "Settled"}

\* order.status != "Active"
WrongStatus(o) == o.status # "Active"

\* Some(event.pubkey.to_bech32()?) != order.buyer_pubkey
NotBuyer(pk, o) == Some(to_bech32(pk)) # o.buyer_pubkey

\* a not-found branch that answers the sender with a CantDo
OrderNotFound_Answers(c) ==
    /\ dms' = send_dm(dms, event_pubkey[c],
                      NewMessage(0, msg_order_id[c], "CantDo",
                                 Some(TextMessage(cant_do))), c)
    /\ Return(c, "Ok")
    /\ UNCHANGED <<orders, saves, order, seller_pubkey>>

\* by_id found nothing: log and return Ok
OrderNotFound(c) ==
    /\ Return(c, "Ok")
    /\ UNCHANGED <<orders, saves, dms, order, seller_pubkey>>

\* by_id found the order: the status check, then the buyer check
OrderFound(c, o) ==
    /\ order' = [order EXCEPT ![c] = Some(o)]
    /\ IF WrongStatus(o)
       THEN Return(c, "Ok")
       ELSE IF NotBuyer(event_pubkey[c], o)
            THEN Goto(c, "cant_do")
            ELSE Goto(c, "update")
    /\ UNCHANGED <<orders, saves, dms, seller_pubkey>>

\* Order::by_id(pool, order_id).await? and the checks up to the next await
ById(c) ==
    /\ pc[c] = "by_id"
    /\ \/ /\ Return(c, "Err:by_id")
          /\ UNCHANGED <<orders, saves, dms, order, seller_pubkey>>
       \/ LET found == by_id(orders, Unwrap(msg_order_id[c])) IN
          IF found = None
          THEN OrderNotFound(c)
          ELSE OrderFound(c, Unwrap(found))
    /\ UNCHANGED <<msg_order_id, event_pubkey>>
    /\ UNCHANGED <<payVars, holdVars, subVars>>

\* the CantDo message for the sender
CantDoMessage(c) ==
    NewMessage(0, Some(Unwrap(order[c]).id), "CantDo", Some(TextMessage(cant_do)))

\* send_dm(client, my_keys, &event.pubkey, message).await? of the buyer check
CantDo(c) ==
    /\ pc[c] = "cant_do"
    /\ \/ /\ dms' = send_dm(dms, event_pubkey[c], CantDoMessage(c), c)
          /\ Goto(c, "update")
       \/ /\ Return(c, "Err:send_dm")
          /\ UNCHANGED dms
    /\ UNCHANGED <<orders, saves, order, seller_pubkey, msg_order_id, event_pubkey>>
    /\ UNCHANGED <<payVars, holdVars, subVars>>

\* let seller_pubkey = match order.seller_pubkey.as_ref() { ... }
ResolveSeller(c) ==
    LET o == Unwrap(order[c]) IN
    IF o.seller_pubkey = None
    THEN /\ Return(c, "Ok")
         /\ UNCHANGED seller_pubkey
    ELSE LET r == from_bech32(Unwrap(o.seller_pubkey)) IN
         IF r.ok
         THEN /\ seller_pubkey' = [seller_pubkey EXCEPT ![c] = r.val]
              /\ Goto(c, "to_seller")
         ELSE /\ Return(c, "Err:to_bech32")
              /\ UNCHANGED seller_pubkey

\* a handler that resolves the seller and notifies without having persisted
Update_NotPersisted(c) ==
    /\ pc[c] = "update"
    /\ ResolveSeller(c)
    /\ UNCHANGED <<orders, saves>>
    /\ UNCHANGED <<dms, order, msg_order_id, event_pubkey>>
    /\ UNCHANGED <<payVars, holdVars, subVars>>

\* update_order_event(pool, client, my_keys, Status::FiatSent, &order, None)
\* .await? and the seller lookup up to the next await
Update(c) ==
    /\ pc[c] = "update"
    /\ \/ /\ orders' = update_order_event(orders, "FiatSent", Unwrap(order[c]))
          /\ saves' = Append(saves, <<Unwrap(order[c]).id, "FiatSent", c>>)
          /\ ResolveSeller(c)
       \/ /\ Return(c, "Err:update_order_event")
          /\ UNCHANGED <<orders, saves, seller_pubkey>>
    /\ UNCHANGED <<dms, order, msg_order_id, event_pubkey>>
    /\ UNCHANGED <<payVars, holdVars, subVars>>

\* a message for the seller that carries the seller's own identity
SellerMessage_CarriesSeller(c) ==
    NewMessage(0, Some(Unwrap(order[c]).id), "FiatSent",
               Some(Peer(to_bech32(seller_pubkey[c]))))

\* the FiatSent message for the seller: the sender's identity
SellerMessage(c) ==
    NewMessage(0, Some(Unwrap(order[c]).id), "FiatSent",
               Some(Peer(to_bech32(event_pubkey[c]))))

\* the FiatSent message for the sender: the seller's identity
BuyerMessage(c) ==
    NewMessage(0, Some(Unwrap(order[c]).id), "FiatSent",
               Some(Peer(to_bech32(seller_pubkey[c]))))

\* a send to the seller whose failure is dropped: the handler goes on
ToSeller_IgnoresFailure(c) ==
    /\ pc[c] = "to_seller"
    /\ \/ /\ dms' = send_dm(dms, seller_pubkey[c], SellerMessage(c), c)
          /\ Goto(c, "to_buyer")
       \/ /\ Goto(c, "to_buyer")
          /\ UNCHANGED dms
    /\ UNCHANGED <<orders, saves, order, seller_pubkey, msg_order_id, event_pubkey>>
    /\ UNCHANGED <<payVars, holdVars, subVars>>

\* send_dm(client, my_keys, &seller_pubkey, message).await?
ToSeller(c) ==
    /\ pc[c] = "to_seller"
    /\ \/ /\ dms' = send_dm(dms, seller_pubkey[c], SellerMessage(c), c)
          /\ Goto(c, "to_buyer")
       \/ /\ Return(c, "Err:send_dm")
          /\ UNCHANGED dms
    /\ UNCHANGED <<orders, saves, order, seller_pubkey, msg_order_id, event_pubkey>>
    /\ UNCHANGED <<payVars, holdVars, subVars>>

\* send_dm(client, my_keys, &event.pubkey, message).await?; Ok(())
ToBuyer(c) ==
    /\ pc[c] = "to_buyer"
    /\ \/ /\ dms' = send_dm(dms, event_pubkey[c], BuyerMessage(c), c)
          /\ Return(c, "Ok")
       \/ /\ Return(c, "Err:send_dm")
          /\ UNCHANGED dms
    /\ UNCHANGED <<orders, saves, order, seller_pubkey, msg_order_id, event_pubkey>>
    /\ UNCHANGED <<payVars, holdVars, subVars>>

(***************************************************************************)
(* Invoices.  A payment request is a bolt11 string; decoding yields its    *)
(* payment hash and its amount, if it names one.                           *)
(***************************************************************************)
PaymentRequests ==
    {<<"lnbc", "h1", None>>, <<"lnbc", "h2", Some(5000)>>, <<"junk">>}

\* the fallback amounts a caller passes
Amounts == {1000}

\* decode_invoice: Ok(invoice) for a bolt11 string, Err otherwise
decode_invoice(pr) ==
    IF Len(pr) = 3 /\ pr[1] = "lnbc"
    THEN [ok |-> TRUE, payment_hash |-> pr[2], amount_milli_satoshis |-> pr[3]]
    ELSE [ok |-> FALSE, payment_hash |-> "?", amount_milli_satoshis |-> None]

PaymentStatuses == {"InFlight", "Succeeded", "Failed"}

(***************************************************************************)
(* The payment node: it registers a payment attempt for the hash of every  *)
(* send request it receives, and answers a track query for a hash with Ok  *)
(* exactly when an attempt is registered for it.  node_log is the sequence *)
(* of send requests it has received.                                       *)
(***************************************************************************)
SendsFor(log, h) ==
    {i \in 1..Len(log) : log[i].payment_hash = h}

(***************************************************************************)
(* LndConnector::send_payment                                              *)
(***************************************************************************)
TimeoutSeconds == 60
\* i64::default(), the amt of a request built with ..Default::default()
DefaultAmt == 0

\* the caller hands send_payment an invoice string and a fallback amount;
\* decode_invoice(payment_request).unwrap()
PayInvoke(p, pr, amt) ==
    /\ ppc[p] = "idle"
    /\ \A q \in PayCalls : q < p => ppc[q] # "idle"
    /\ payment_request' = [payment_request EXCEPT ![p] = Some(pr)]
    /\ amount' = [amount EXCEPT ![p] = amt]
    /\ IF decode_invoice(pr).ok
       THEN ppc' = [ppc EXCEPT ![p] = "track"]
       ELSE ppc' = [ppc EXCEPT ![p] = "panicked"]
    /\ UNCHANGED <<track, stream, listener, node_log>>
    /\ UNCHANGED <<fiatVars, holdVars, subVars>>

Invoice(p) == decode_invoice(Unwrap(payment_request[p]))

\* the node's answer to track_payment_v2 for the payment hash `h`
track_payment_v2(log, h) == IF SendsFor(log, h) # {} THEN "Ok" ELSE "Err"

\* a guard that aborts when the payment is not tracked and sends when it is
AbortIfTracked_Inverted(t) == t # "Ok"

\* if track.is_ok() { return; }
AbortIfTracked(t) == t = "Ok"

\* self.client.router().track_payment_v2(track_payment_req).await and the
\* guard on its result
Track(p) ==
    /\ ppc[p] = "track"
    /\ LET t == track_payment_v2(node_log, Invoice(p).payment_hash) IN
       /\ track' = [track EXCEPT ![p] = t]
       /\ IF AbortIfTracked(t)
          THEN ppc' = [ppc EXCEPT ![p] = "aborted"]
          ELSE ppc' = [ppc EXCEPT ![p] = "send"]
    /\ UNCHANGED <<payment_request, amount, stream, listener, node_log>>
    /\ UNCHANGED <<fiatVars, holdVars, subVars>>

\* a request that carries the caller's amount whatever the invoice says
SendPaymentRequest_AlwaysFallback(p) ==
    [payment_request |-> Unwrap(payment_request[p]),
     timeout_seconds |-> TimeoutSeconds,
     amt |-> amount[p]]

\* the SendPaymentRequest: amt only if the invoice names no amount
SendPaymentRequest(p) ==
    [payment_request |-> Unwrap(payment_request[p]),
     timeout_seconds |-> TimeoutSeconds,
     amt |-> IF Invoice(p).amount_milli_satoshis = None
             THEN amount[p]
             ELSE DefaultAmt]

\* self.client.router().send_payment_v2(request).await.expect(..)
Send(p) ==
    /\ ppc[p] = "send"
    /\ \/ \* the node takes the request and opens the stream
          /\ node_log' = Append(node_log,
                                [payment_hash |-> Invoice(p).payment_hash,
                                 call |-> p, request |-> SendPaymentRequest(p)])
          /\ ppc' = [ppc EXCEPT ![p] = "recv"]
       \/ \* the node takes the request and answers with an error
          /\ node_log' = Append(node_log,
                                [payment_hash |-> Invoice(p).payment_hash,
                                 call |-> p, request |-> SendPaymentRequest(p)])
          /\ ppc' = [ppc EXCEPT ![p] = "panicked"]
       \/ \* the request does not reach the node
          /\ ppc' = [ppc EXCEPT ![p] = "panicked"]
          /\ UNCHANGED node_log
    /\ UNCHANGED <<payment_request, amount, track, stream, listener>>
    /\ UNCHANGED <<fiatVars, holdVars, subVars>>

RECURSIVE SumLen(_, _)
SumLen(f, S) ==
    IF S = {} THEN 0
    ELSE LET x == CHOOSE y \in S : TRUE IN Len(f[x]) + SumLen(f, S \ {x})

\* the number of updates the node has delivered so far
Delivered(str) == SumLen(str, DOMAIN str)

\* stream.message().await.expect(..): the next update, the end, or an error
Recv(p) ==
    /\ ppc[p] = "recv"
    /\ \/ /\ Delivered(stream) < MaxUpdates
          /\ \E st \in PaymentStatuses :
                stream' = [stream EXCEPT ![p] =
                              Append(@, [status |-> st,
                                         payment_hash |-> Invoice(p).payment_hash])]
          /\ ppc' = [ppc EXCEPT ![p] = "forward"]
       \/ /\ ppc' = [ppc EXCEPT ![p] = "returned"]
          /\ UNCHANGED stream
       \/ /\ ppc' = [ppc EXCEPT ![p] = "panicked"]
          /\ UNCHANGED stream
    /\ UNCHANGED <<payment_request, amount, track, listener, node_log>>
    /\ UNCHANGED <<fiatVars, holdVars, subVars>>

PaymentMessage(payment) == [payment |-> payment]

\* a loop body that hands the sink only the Succeeded updates
Forward_OnlySucceeded(p) ==
    /\ ppc[p] = "forward"
    /\ \/ /\ IF stream[p][Len(stream[p])].status = "Succeeded"
             THEN listener' = [listener EXCEPT ![p] =
                                  Append(@, PaymentMessage(stream[p][Len(stream[p])]))]
             ELSE UNCHANGED listener
          /\ ppc' = [ppc EXCEPT ![p] = "recv"]
       \/ /\ ppc' = [ppc EXCEPT ![p] = "panicked"]
          /\ UNCHANGED listener
    /\ UNCHANGED <<payment_request, amount, track, stream, node_log>>
    /\ UNCHANGED <<fiatVars, holdVars, subVars>>

\* listener.clone().send(msg).await.expect(..)
Forward(p) ==
    /\ ppc[p] = "forward"
    /\ \/ /\ listener' = [listener EXCEPT ![p] =
                              Append(@, PaymentMessage(stream[p][Len(stream[p])]))]
          /\ ppc' = [ppc EXCEPT ![p] = "recv"]
       \/ /\ ppc' = [ppc EXCEPT ![p] = "panicked"]
          /\ UNCHANGED listener
    /\ UNCHANGED <<payment_request, amount, track, stream, node_log>>
    /\ UNCHANGED <<fiatVars, holdVars, subVars>>

(***************************************************************************)
(* Bytes, hashing and hex                                                  *)
(***************************************************************************)
\* byte strings are numbers; the 32 random bytes of a preimage
Preimages == {1, 2}
\* the offset that tells a digest from a preimage
DigestBase == 100
\* easy_hasher raw_sha256: one digest per input, none of them a preimage
raw_sha256(bytes) == DigestBase + bytes

\* every payment hash there is
Hashes == {raw_sha256(p) : p \in Preimages}

\* ToHex::to_hex and FromHex::from_hex: a hex string decodes to the bytes
\* it was made from, any other string does not decode
to_hex(bytes) == <<"hex", bytes>>
Malformed == <<"zz">>
from_hex(s) == IF Len(s) = 2 /\ s[1] = "hex" THEN Some(s[2]) ELSE None

\* var("HOLD_INVOICE_CLTV_DELTA"): unset, a number, or not a number
EnvValues == {None, Some("144"), Some("soon")}
\* str::parse::<u64>
parse_u64(s) == IF s = "144" THEN Some(144) ELSE None

(***************************************************************************)
(* The payment node's hold invoices.  The node keeps one invoice per       *)
(* payment hash.  It adds an invoice for a hash it does not hold, settles  *)
(* the Open invoice whose hash is the digest of the preimage it is given,  *)
(* cancels the Open invoice of the hash it is given, and rejects a request *)
(* for a hash it does not hold or for an invoice already Settled or        *)
(* Canceled.                                                               *)
(***************************************************************************)
HoldRequest(c, op, arg, reply) ==
    [call |-> c, op |-> op, arg |-> arg, reply |-> reply]

\* the answers the node may give to a settle of the invoice with hash k
SettleReplies(inv, k) ==
    IF k \notin DOMAIN inv THEN {"rejected"}
    ELSE IF inv[k] = "Open" THEN {"accepted"}
    ELSE {"rejected"}

\* the answers the node may give to a cancel of the invoice with hash k
CancelReplies(inv, k) ==
    IF k \notin DOMAIN inv THEN {"rejected"}
    ELSE IF inv[k] = "Open" THEN {"accepted"}
    ELSE {"rejected"}

\* the invoice with hash k moves to `state` if it is Open
Moved(inv, k, state) ==
    IF k \in DOMAIN inv /\ inv[k] = "Open"
    THEN [inv EXCEPT ![k] = state]
    ELSE inv

(***************************************************************************)
(* LndConnector::create_hold_invoice, settle_hold_invoice and              *)
(* cancel_hold_invoice                                                     *)
(***************************************************************************)
\* A call's result is none yet, Ok with a value, or a panic with its message.
NoResult == [kind |-> "none", val |-> <<>>]
Ok(v) == [kind |-> "Ok", val |-> v]
Panic(message) == [kind |-> "Panic", val |-> message]

\* the call returns Ok(v)
HoldReturn(h, v) ==
    /\ hpc' = [hpc EXCEPT ![h] = "done"]
    /\ hold_ret' = [hold_ret EXCEPT ![h] = Ok(v)]

\* an expect fails: the call unwinds
HoldPanic(h, message) ==
    /\ hpc' = [hpc EXCEPT ![h] = "panicked"]
    /\ hold_ret' = [hold_ret EXCEPT ![h] = Panic(message)]

HoldGoto(h, label) ==
    /\ hpc' = [hpc EXCEPT ![h] = label]
    /\ UNCHANGED hold_ret

AddHoldInvoiceRequest(hash, memo, value, cltv_expiry) ==
    [hash |-> hash, memo |-> memo, value |-> value, cltv_expiry |-> cltv_expiry]

\* locals whose hash was taken before the preimage was filled
CreateLocals_HashOfZeroes(pre, description, amt) ==
    [op |-> "create", input |-> <<>>, preimage |-> pre,
     hash |-> raw_sha256(0),
     request |-> AddHoldInvoiceRequest(raw_sha256(0), description, amt,
                                       Unwrap(parse_u64(Unwrap(cltv_env))))]

\* the locals of create_hold_invoice once the request is built
CreateLocals(pre, description, amt) ==
    [op |-> "create", input |-> <<>>, preimage |-> pre,
     hash |-> raw_sha256(pre),
     request |-> AddHoldInvoiceRequest(raw_sha256(pre), description, amt,
                                       Unwrap(parse_u64(Unwrap(cltv_env))))]

\* create_hold_invoice up to add_hold_invoice(invoice).await: `pre` is what
\* the random generator filled the preimage with
CreateHoldInvoice(h, pre, description, amt) ==
    /\ hpc[h] = "idle"
    /\ \A g \in HoldCalls : g < h => hpc[g] # "idle"
    /\ IF cltv_env = None
       THEN /\ HoldPanic(h, "HOLD_INVOICE_CLTV_DELTA must be set")
            /\ hold_local' = [hold_local EXCEPT ![h].op = "create"]
       ELSE IF parse_u64(Unwrap(cltv_env)) = None
       THEN /\ HoldPanic(h, "cltv delta is not i64")
            /\ hold_local' = [hold_local EXCEPT ![h].op = "create"]
       ELSE /\ HoldGoto(h, "add")
            /\ hold_local' = [hold_local EXCEPT ![h] =
                                 CreateLocals(pre, description, amt)]
    /\ UNCHANGED <<invoices, hold_log, cltv_env>>
    /\ UNCHANGED <<fiatVars, payVars, subVars>>

AddHoldInvoiceResp(request) ==
    [payment_request |-> <<"lnbc", request.hash, Some(request.value)>>]

\* .add_hold_invoice(invoice).await.expect(..) and the return
AddHoldInvoice(h) ==
    /\ hpc[h] = "add"
    /\ LET request == hold_local[h].request IN
       \/ \* the node adds the invoice
          /\ request.hash \notin DOMAIN invoices
          /\ invoices' = [k \in DOMAIN invoices \cup {request.hash} |->
                             IF k = request.hash THEN "Open" ELSE invoices[k]]
          /\ hold_log' = Append(hold_log, HoldRequest(h, "add", request, "accepted"))
          /\ HoldReturn(h, [invoice |-> AddHoldInvoiceResp(request),
                            preimage |-> hold_local[h].preimage,
                            hash |-> hold_local[h].hash])
       \/ \* the node holds an invoice for the hash already
          /\ request.hash \in DOMAIN invoices
          /\ hold_log' = Append(hold_log, HoldRequest(h, "add", request, "rejected"))
          /\ HoldPanic(h, "Failed to add hold invoice")
          /\ UNCHANGED invoices
       \/ \* the request does not reach the node
          /\ HoldPanic(h, "Failed to add hold invoice")
          /\ UNCHANGED <<invoices, hold_log>>
    /\ UNCHANGED <<hold_local, cltv_env>>
    /\ UNCHANGED <<fiatVars, payVars, subVars>>

\* settle_hold_invoice up to settle_invoice(preimage_message).await
SettleHoldInvoice(h, preimage) ==
    /\ hpc[h] = "idle"
    /\ \A g \in HoldCalls : g < h => hpc[g] # "idle"
    /\ IF from_hex(preimage) = None
       THEN /\ HoldPanic(h, "Wrong preimage")
            /\ hold_local' = [hold_local EXCEPT ![h].op = "settle",
                                                ![h].input = preimage]
       ELSE /\ HoldGoto(h, "settle")
            /\ hold_local' = [hold_local EXCEPT ![h] =
                                 [op |-> "settle", input |-> preimage,
                                  preimage |-> Unwrap(from_hex(preimage)),
                                  hash |-> 0,
                                  request |-> [preimage |-> Unwrap(from_hex(preimage))]]]
    /\ UNCHANGED <<invoices, hold_log, cltv_env>>
    /\ UNCHANGED <<fiatVars, payVars, subVars>>

\* a settle that drops the node's answer and returns Ok whatever it was
SettleInvoice_IgnoresAnswer(h) ==
    /\ hpc[h] = "settle"
    /\ LET request == hold_local[h].request
           k == raw_sha256(request.preimage)
       IN \/ \E reply \in SettleReplies(invoices, k) :
                /\ hold_log' = Append(hold_log, HoldRequest(h, "settle", request, reply))
                /\ invoices' = IF reply = "accepted"
                               THEN Moved(invoices, k, "Settled")
                               ELSE invoices
                /\ HoldReturn(h, <<>>)
          \/ /\ HoldPanic(h, "Failed to settle hold invoice")
             /\ UNCHANGED <<invoices, hold_log>>
    /\ UNCHANGED <<hold_local, cltv_env>>
    /\ UNCHANGED <<fiatVars, payVars, subVars>>

\* .settle_invoice(preimage_message).await.expect(..) and the return
SettleInvoice(h) ==
    /\ hpc[h] = "settle"
    /\ LET request == hold_local[h].request
           k == raw_sha256(request.preimage)
       IN \/ \* the node receives the request
             \E reply \in SettleReplies(invoices, k) :
                /\ hold_log' = Append(hold_log, HoldRequest(h, "settle", request, reply))
                /\ IF reply = "accepted"
                   THEN /\ invoices' = Moved(invoices, k, "Settled")
                        /\ HoldReturn(h, <<>>)
                   ELSE /\ HoldPanic(h, "Failed to settle hold invoice")
                        /\ UNCHANGED invoices
          \/ \* the request does not reach the node
             /\ HoldPanic(h, "Failed to settle hold invoice")
             /\ UNCHANGED <<invoices, hold_log>>
    /\ UNCHANGED <<hold_local, cltv_env>>
    /\ UNCHANGED <<fiatVars, payVars, subVars>>

\* cancel_hold_invoice up to cancel_invoice(cancel_message).await
CancelHoldInvoice(h, hash) ==
    /\ hpc[h] = "idle"
    /\ \A g \in HoldCalls : g < h => hpc[g] # "idle"
    /\ IF from_hex(hash) = None
       THEN /\ HoldPanic(h, "Wrong payment hash")
            /\ hold_local' = [hold_local EXCEPT ![h].op = "cancel",
                                                ![h].input = hash]
       ELSE /\ HoldGoto(h, "cancel")
            /\ hold_local' = [hold_local EXCEPT ![h] =
                                 [op |-> "cancel", input |-> hash,
                                  preimage |-> 0,
                                  hash |-> Unwrap(from_hex(hash)),
                                  request |-> [payment_hash |-> Unwrap(from_hex(hash))]]]
    /\ UNCHANGED <<invoices, hold_log, cltv_env>>
    /\ UNCHANGED <<fiatVars, payVars, subVars>>

\* .cancel_invoice(cancel_message).await.expect(..) and the return
CancelInvoice(h) ==
    /\ hpc[h] = "cancel"
    /\ LET request == hold_local[h].request
           k == request.payment_hash
       IN \/ \* the node receives the request
             \E reply \in CancelReplies(invoices, k) :
                /\ hold_log' = Append(hold_log, HoldRequest(h, "cancel", request, reply))
                /\ IF reply = "accepted"
                   THEN /\ invoices' = Moved(invoices, k, "Canceled")
                        /\ HoldReturn(h, <<>>)
                   ELSE /\ HoldPanic(h, "Failed to cancel hold invoice")
                        /\ UNCHANGED invoices
          \/ \* the request does not reach the node
             /\ HoldPanic(h, "Failed to cancel hold invoice")
             /\ UNCHANGED <<invoices, hold_log>>
    /\ UNCHANGED <<hold_local, cltv_env>>
    /\ UNCHANGED <<fiatVars, payVars, subVars>>

(***************************************************************************)
(* LndConnector::subscribe_invoice                                         *)
(***************************************************************************)
\* the values of lnrpc Invoice.state the node may put on the wire: the four
\* states and one value the enum does not know
InvoiceStateCodes == {0, 1, 2, 3, 7}

\* InvoiceState::from_i32
from_i32(n) ==
    CASE n = 0 -> Some("Open")
      [] n = 1 -> Some("Settled")
      [] n = 2 -> Some("Canceled")
      [] n = 3 -> Some("Accepted")
      [] OTHER -> None

InvoiceMessage(hash, state) == [hash |-> hash, state |-> state]

\* the caller hands subscribe_invoice a payment hash (and a listener)
SubscribeInvoice(s, hash) ==
    /\ spc[s] = "idle"
    /\ \A t \in Subs : t < s => spc[t] # "idle"
    /\ r_hash' = [r_hash EXCEPT ![s] = hash]
    /\ spc' = [spc EXCEPT ![s] = "subscribe"]
    /\ UNCHANGED <<invoice_stream, invoice_listener>>
    /\ UNCHANGED <<fiatVars, payVars, holdVars>>

\* .subscribe_single_invoice(..).await.expect(..)
SubscribeSingleInvoice(s) ==
    /\ spc[s] = "subscribe"
    /\ \/ spc' = [spc EXCEPT ![s] = "recv"]
       \/ spc' = [spc EXCEPT ![s] = "panicked"]
    /\ UNCHANGED <<r_hash, invoice_stream, invoice_listener>>
    /\ UNCHANGED <<fiatVars, payVars, holdVars>>

\* the number of invoices the node has delivered so far
InvoicesDelivered(str) == SumLen(str, DOMAIN str)

\* a loop head that takes an Open invoice for nothing to forward
InvoiceStreamMessage_SkipsOpen(s) ==
    /\ spc[s] = "recv"
    /\ \/ /\ InvoicesDelivered(invoice_stream) < MaxInvoiceUpdates
          /\ \E n \in InvoiceStateCodes :
                /\ invoice_stream' = [invoice_stream EXCEPT ![s] =
                                         Append(@, [r_hash |-> r_hash[s], state |-> n])]
                /\ IF from_i32(n) # None /\ n # 0
                   THEN spc' = [spc EXCEPT ![s] = "forward"]
                   ELSE UNCHANGED spc
       \/ /\ spc' = [spc EXCEPT ![s] = "returned"]
          /\ UNCHANGED invoice_stream
       \/ /\ spc' = [spc EXCEPT ![s] = "panicked"]
          /\ UNCHANGED invoice_stream
    /\ UNCHANGED <<r_hash, invoice_listener>>
    /\ UNCHANGED <<fiatVars, payVars, holdVars>>

\* invoice_stream.message().await.expect(..): the next invoice, the end, or
\* an error; and the test of the invoice's state
InvoiceStreamMessage(s) ==
    /\ spc[s] = "recv"
    /\ \/ /\ InvoicesDelivered(invoice_stream) < MaxInvoiceUpdates
          /\ \E n \in InvoiceStateCodes :
                /\ invoice_stream' = [invoice_stream EXCEPT ![s] =
                                         Append(@, [r_hash |-> r_hash[s], state |-> n])]
                /\ IF from_i32(n) # None
                   THEN spc' = [spc EXCEPT ![s] = "forward"]
                   ELSE UNCHANGED spc
       \/ /\ spc' = [spc EXCEPT ![s] = "returned"]
          /\ UNCHANGED invoice_stream
       \/ /\ spc' = [spc EXCEPT ![s] = "panicked"]
          /\ UNCHANGED invoice_stream
    /\ UNCHANGED <<r_hash, invoice_listener>>
    /\ UNCHANGED <<fiatVars, payVars, holdVars>>

\* listener.clone().send(msg).await.expect(..)
ListenerSend(s) ==
    /\ spc[s] = "forward"
    /\ LET invoice == invoice_stream[s][Len(invoice_stream[s])] IN
       \/ /\ invoice_listener' =
                [invoice_listener EXCEPT ![s] =
                    Append(@, InvoiceMessage(r_hash[s], Unwrap(from_i32(invoice.state))))]
          /\ spc' = [spc EXCEPT ![s] = "recv"]
       \/ /\ spc' = [spc EXCEPT ![s] = "panicked"]
          /\ UNCHANGED invoice_listener
    /\ UNCHANGED <<r_hash, invoice_stream>>
    /\ UNCHANGED <<fiatVars, payVars, holdVars>>

\* the arguments the callers pass
Descriptions == {"memo"}
HoldAmounts == {1000}
SettleInputs == {to_hex(pre) : pre \in Preimages} \cup {Malformed}
CancelInputs == {to_hex(raw_sha256(1)), Malformed}

InitHold ==
    /\ hpc = [h \in HoldCalls |-> "idle"]
    /\ hold_local = [h \in HoldCalls |->
                        [op |-> "none", input |-> <<>>, preimage |-> 0,
                         hash |-> 0, request |-> <<>>]]
    /\ hold_ret = [h \in HoldCalls |-> NoResult]
    /\ invoices = <<>>
    /\ hold_log = <<>>
    /\ cltv_env \in EnvValues

InitSub ==
    /\ spc = [s \in Subs |-> "idle"]
    /\ r_hash = [s \in Subs |-> 0]
    /\ invoice_stream = [s \in Subs |-> <<>>]
    /\ invoice_listener = [s \in Subs |-> <<>>]

\* the node and the subscriptions at rest
InitLndIdle == InitHold /\ cltv_env = Some("144") /\ InitSub

InitPay ==
    /\ ppc = [p \in PayCalls |-> "idle"]
    /\ payment_request = [p \in PayCalls |-> None]
    /\ amount = [p \in PayCalls |-> 0]
    /\ track = [p \in PayCalls |-> "none"]
    /\ stream = [p \in PayCalls |-> <<>>]
    /\ listener = [p \in PayCalls |-> <<>>]
    /\ node_log = <<>>

InitFiat(stored) ==
    /\ orders \in {f \in [stored -> UNION {OrderRecords(id) : id \in stored}] :
                     \A id \in stored : f[id].id = id}
    /\ saves = <<>>
    /\ dms = <<>>
    /\ pc = [c \in Calls |-> "idle"]
    /\ msg_order_id = [c \in Calls |-> None]
    /\ event_pubkey = [c \in Calls |-> "?"]
    /\ order = [c \in Calls |-> None]
    /\ seller_pubkey = [c \in Calls |-> "?"]
    /\ ret = [c \in Calls |-> "none"]

Init == InitFiat(StoredIds) /\ InitPay /\ InitLndIdle

Next ==
    \E c \in Calls :
        \/ \E oid \in {None} \cup {Some(id) : id \in OrderIds}, pk \in PubKeys :
               Invoke(c, oid, pk)
        \/ ById(c)
        \/ CantDo(c)
        \/ Update(c)
        \/ ToSeller(c)
        \/ ToBuyer(c)

Spec == Init /\ [][Next]_vars

\* an invocation that starts after every earlier one has returned
InvokeAfterReturn(c, oid, pk) ==
    /\ \A d \in Calls : d < c => pc[d] = "done"
    /\ Invoke(c, oid, pk)

\* the handler called again and again, one call at a time
NextSeq ==
    \E c \in Calls :
        \/ \E oid \in {None} \cup {Some(id) : id \in OrderIds}, pk \in PubKeys :
               InvokeAfterReturn(c, oid, pk)
        \/ ById(c)
        \/ CantDo(c)
        \/ Update(c)
        \/ ToSeller(c)
        \/ ToBuyer(c)

SpecSeq == Init /\ [][NextSeq]_vars

\* the store is at rest while payments run
InitPayOnly ==
    /\ InitFiat(StoredIds)
    /\ orders[42] = [id |-> 42, status |-> "Active",
                     buyer_pubkey |-> Some(to_bech32("B")),
                     seller_pubkey |-> Some(to_bech32("S"))]
    /\ InitPay
    /\ InitLndIdle

NextPay ==
    \E p \in PayCalls :
        \/ \E pr \in PaymentRequests, amt \in Amounts : PayInvoke(p, pr, amt)
        \/ Track(p)
        \/ Send(p)
        \/ Recv(p)
        \/ Forward(p)

SpecPay == InitPayOnly /\ [][NextPay]_vars

\* the store and the payments are at rest while hold invoices are handled
InitHoldOnly ==
    /\ InitFiat(StoredIds)
    /\ orders[42] = [id |-> 42, status |-> "Active",
                     buyer_pubkey |-> Some(to_bech32("B")),
                     seller_pubkey |-> Some(to_bech32("S"))]
    /\ InitPay
    /\ InitHold
    /\ InitSub

NextHold ==
    \E h \in HoldCalls :
        \/ \E pre \in Preimages, description \in Descriptions, amt \in HoldAmounts :
               CreateHoldInvoice(h, pre, description, amt)
        \/ AddHoldInvoice(h)
        \/ \E preimage \in SettleInputs : SettleHoldInvoice(h, preimage)
        \/ SettleInvoice(h)
        \/ \E hash \in CancelInputs : CancelHoldInvoice(h, hash)
        \/ CancelInvoice(h)

SpecHold == InitHoldOnly /\ [][NextHold]_vars

\* the store, the payments and the hold invoices are at rest while
\* subscriptions run
InitSubOnly ==
    /\ InitFiat(StoredIds)
    /\ orders[42] = [id |-> 42, status |-> "Active",
                     buyer_pubkey |-> Some(to_bech32("B")),
                     seller_pubkey |-> Some(to_bech32("S"))]
    /\ InitPay
    /\ InitLndIdle

NextSub ==
    \E s \in Subs :
        \/ \E hash \in Hashes : SubscribeInvoice(s, hash)
        \/ SubscribeSingleInvoice(s)
        \/ InvoiceStreamMessage(s)
        \/ ListenerSend(s)

SpecSub == InitSubOnly /\ [][NextSub]_vars

(***************************************************************************)
(* What a call of fiat_sent_action did, read off the store and transport   *)
(***************************************************************************)
\* the direct messages call c sent, as positions of dms
DmsOf(c) == {i \in 1..Len(dms) : dms[i].call = c}
\* those among them with action `a`
DmsOfAction(c, a) == {i \in DmsOf(c) : dms[i].message.action = a}
\* the writes call c made, as positions of saves
SavesOf(c) == {i \in 1..Len(saves) : saves[i][3] = c}
\* call c loaded an order whose status is in `sts`
Loaded(c, sts) == order[c] # None /\ Unwrap(order[c]).status \in sts
\* no call other than c wrote to the store
OnlyWriter(c) == \A i \in 1..Len(saves) : saves[i][3] = c
\* the sender of call c is the buyer of the order it loaded
SenderIsBuyer(c) == Some(to_bech32(event_pubkey[c])) = Unwrap(order[c]).buyer_pubkey
\* the sender of call c is the seller of the order it loaded
SenderIsSeller(c) == Some(to_bech32(event_pubkey[c])) = Unwrap(order[c]).seller_pubkey
\* the stored status of the order call c loaded
StoredStatus(c) == orders[Unwrap(order[c]).id].status
\* order o has a buyer and a seller, two identities
PartiesAssigned(o) ==
    /\ o.buyer_pubkey # None
    /\ o.seller_pubkey # None
    /\ o.buyer_pubkey # o.seller_pubkey
\* call c delivered a CantDo to its sender
GotCantDo(c) == \E i \in DmsOfAction(c, "CantDo") : dms[i].to = event_pubkey[c]

(***************************************************************************)
(* C1 (scenario B): a call on an Active order with buyer B and seller S by  *)
(* a sender who is neither, with no failure and no other writer, has on    *)
(* return delivered a CantDo to the sender and left the stored status      *)
(* Active.                                                                 *)
(***************************************************************************)
C1_UnauthorizedSenderLeavesActive ==
    \A c \in Calls :
        (/\ pc[c] = "done" /\ ret[c] = "Ok"
         /\ Loaded(c, {"Active"})
         /\ PartiesAssigned(Unwrap(order[c]))
         /\ ~SenderIsBuyer(c) /\ ~SenderIsSeller(c)
         /\ OnlyWriter(c))
        => (GotCantDo(c) /\ StoredStatus(c) = "Active")

(***************************************************************************)
(* C2 (state-machine guard): a call that loaded an order with status       *)
(* Pending, Settled, Canceled or Disputed, whoever the sender, writes      *)
(* nothing to the store, leaves the stored status as loaded, and sends no  *)
(* message other than a CantDo (so no FiatSent notification).              *)
(***************************************************************************)
GuardedStatuses == {"Pending", "Settled", "Canceled", "Disputed"}

C2_GuardedStatusNeverMutates ==
    \A c \in Calls :
        Loaded(c, GuardedStatuses)
        => /\ SavesOf(c) = {}
           /\ StoredStatus(c) = Unwrap(order[c]).status
           /\ DmsOfAction(c, "FiatSent") = {}
           /\ DmsOf(c) = DmsOfAction(c, "CantDo")

C2_Witness ==
    \E c \in Calls :
        /\ pc[c] = "done" /\ ret[c] = "Ok"
        /\ Loaded(c, {"Disputed"})
        /\ SenderIsBuyer(c)

(***************************************************************************)
(* C3 (scenario A): a call by the buyer B on an Active order whose seller  *)
(* S is another identity, returning with no persistence or transport       *)
(* failure, leaves the stored status FiatSent, has sent S exactly one      *)
(* message, a FiatSent carrying B's identity, has sent B exactly one       *)
(* message, a FiatSent carrying S's identity, and has sent no CantDo.      *)
(***************************************************************************)
HappyCall(c) ==
    /\ pc[c] = "done" /\ ret[c] = "Ok"
    /\ Loaded(c, {"Active"})
    /\ SenderIsBuyer(c)
    /\ Unwrap(order[c]).seller_pubkey # None
    /\ ~SenderIsSeller(c)

C3_HappyPath ==
    \A c \in Calls :
        HappyCall(c)
        => LET o == Unwrap(order[c])
               B == event_pubkey[c]
               S == from_bech32(Unwrap(o.seller_pubkey)).val
               toS == {i \in DmsOf(c) : dms[i].to = S}
               toB == {i \in DmsOf(c) : dms[i].to = B}
           IN /\ StoredStatus(c) = "FiatSent"
              /\ Cardinality(toS) = 1
              /\ \A i \in toS :
                    /\ dms[i].message.action = "FiatSent"
                    /\ dms[i].message.content = Some(Peer(to_bech32(B)))
              /\ Cardinality(toB) = 1
              /\ \A i \in toB :
                    /\ dms[i].message.action = "FiatSent"
                    /\ dms[i].message.content = Some(Peer(Unwrap(o.seller_pubkey)))
              /\ DmsOfAction(c, "CantDo") = {}
              /\ DmsOf(c) = toS \cup toB

C3_Witness == \E c \in Calls : HappyCall(c)

(***************************************************************************)
(* C4 (scenario D): a call by the buyer on an Active order whose seller    *)
(* identity is absent, with no other writer, returns an error to its       *)
(* caller and leaves the stored status Active.                             *)
(***************************************************************************)
C4_MissingSellerIsAnError ==
    \A c \in Calls :
        (/\ pc[c] = "done"
         /\ Loaded(c, {"Active"})
         /\ SenderIsBuyer(c)
         /\ Unwrap(order[c]).seller_pubkey = None
         /\ OnlyWriter(c))
        => (ret[c] \notin {"Ok"} /\ StoredStatus(c) = "Active")

(***************************************************************************)
(* C5: a call that loaded an order whose status is not Active has, on      *)
(* return without failure, delivered a CantDo to its sender and written    *)
(* nothing to the store.                                                   *)
(***************************************************************************)
C5_WrongStatusIsAnswered ==
    \A c \in Calls :
        (/\ pc[c] = "done" /\ ret[c] = "Ok"
         /\ Loaded(c, Statuses \ {"Active"}))
        => (GotCantDo(c) /\ SavesOf(c) = {})

(***************************************************************************)
(* C6 (scenario C): a call whose order id is not in the store sends no     *)
(* message, writes nothing, creates no record and loads no order, and,     *)
(* unless the lookup itself failed, returns Ok.                            *)
(***************************************************************************)
AbsentCall(c) ==
    /\ msg_order_id[c] # None
    /\ Unwrap(msg_order_id[c]) \notin StoredIds

C6_AbsentOrderIsSilent ==
    \A c \in Calls :
        AbsentCall(c)
        => /\ DOMAIN orders = StoredIds
           /\ DmsOf(c) = {}
           /\ SavesOf(c) = {}
           /\ order[c] = None
           /\ (pc[c] = "done" /\ ret[c] # "Err:by_id") => ret[c] = "Ok"

C6_Witness ==
    \E c \in Calls : AbsentCall(c) /\ pc[c] = "done" /\ ret[c] = "Ok"

(***************************************************************************)
(* C9 (persist before notify): whenever a FiatSent message has been sent,  *)
(* the call that sent it has already written FiatSent for that order and   *)
(* the stored status of that order is no longer Active.                    *)
(***************************************************************************)
C9_PersistBeforeNotify ==
    \A i \in 1..Len(dms) :
        dms[i].message.action = "FiatSent"
        => LET id == Unwrap(dms[i].message.order_id) IN
           /\ \E j \in SavesOf(dms[i].call) : saves[j] = <<id, "FiatSent", dms[i].call>>
           /\ orders[id].status # "Active"

C9_Witness ==
    \E i \in 1..Len(dms) :
        /\ dms[i].message.action = "FiatSent"
        /\ pc[dms[i].call] = "to_buyer"

(***************************************************************************)
(* C10 (identity disclosure): for an order with a buyer and a seller, every *)
(* FiatSent message sent to the seller carries the buyer's identity, and   *)
(* every FiatSent message carrying the seller's identity is addressed to   *)
(* the buyer.                                                              *)
(***************************************************************************)
C10_DisclosureToRightParties ==
    \A i \in 1..Len(dms) :
        (/\ dms[i].message.action = "FiatSent"
         /\ PartiesAssigned(orders[Unwrap(dms[i].message.order_id)]))
        => LET o == orders[Unwrap(dms[i].message.order_id)]
               carried == Some(Unwrap(dms[i].message.content).val)
           IN /\ Some(to_bech32(dms[i].to)) = o.seller_pubkey
                    => carried = o.buyer_pubkey
              /\ carried = o.seller_pubkey
                    => Some(to_bech32(dms[i].to)) = o.buyer_pubkey

(***************************************************************************)
(* What a call of send_payment did, read off the node                      *)
(***************************************************************************)
\* the send requests of call p the node received, as positions of node_log
SendsOf(p) == {i \in 1..Len(node_log) : node_log[i].call = p}
\* call p has decoded its invoice
Decoded(p) == payment_request[p] # None /\ Invoice(p).ok

C8_AtMostOneSendPerHash ==
    \A i, j \in 1..Len(node_log) :
        node_log[i].payment_hash = node_log[j].payment_hash => i = j

(***************************************************************************)
(* C11 (terminal states are immutable): no step of any call of the handler *)
(* changes the stored status of an order whose status is Settled, Canceled *)
(* or CooperativelyCanceled, whoever the sender.                           *)
(***************************************************************************)
TerminalStatuses == {"Settled", "Canceled", "CooperativelyCanceled"}

C11_TerminalStatusImmutable ==
    [][\A id \in DOMAIN orders :
          orders[id].status \in TerminalStatuses
          => (id \in DOMAIN orders' /\ orders'[id].status = orders[id].status)]_vars

\* a call by the buyer has run to its end on a terminal order
C11_Witness ==
    \E c \in Calls :
        /\ pc[c] = "done" /\ ret[c] = "Ok"
        /\ Loaded(c, TerminalStatuses)
        /\ SenderIsBuyer(c)
        /\ StoredStatus(c) \in TerminalStatuses

(***************************************************************************)
(* C14 (failures are reported): for a call that loaded an Active order,    *)
(* the side effects happen in the order CantDo (if the sender is not the   *)
(* buyer), persist, FiatSent to the seller, FiatSent to the sender, and    *)
(* none happens after one that failed; the call returns Ok only if every   *)
(* one of them completed, and otherwise returns the error of the first     *)
(* that did not.                                                           *)
(***************************************************************************)
C14_FailuresAreReported ==
    \A c \in Calls :
        Loaded(c, {"Active"})
        => LET o == Unwrap(order[c])
               nCD == Cardinality(DmsOfAction(c, "CantDo"))
               nS == Cardinality(SavesOf(c))
               nF == Cardinality(DmsOfAction(c, "FiatSent"))
               wantCD == IF NotBuyer(event_pubkey[c], o) THEN 1 ELSE 0
               wantF == IF o.seller_pubkey = None THEN 0 ELSE 2
           IN /\ nCD <= wantCD /\ nS <= 1 /\ nF <= wantF
              \* no later step after a missing earlier one
              /\ nS = 1 => nCD = wantCD
              /\ nF >= 1 => nS = 1
              /\ nF = 1 => \A i \in DmsOfAction(c, "FiatSent") :
                               dms[i].message = SellerMessage(c)
              \* the result tells what happened
              /\ pc[c] = "done"
                 => /\ ret[c] = "Ok" <=> (nCD = wantCD /\ nS = 1 /\ nF = wantF)
                    /\ nCD < wantCD => ret[c] = "Err:send_dm"
                    /\ (nCD = wantCD /\ nS = 0) => ret[c] = "Err:update_order_event"
                    /\ (nS = 1 /\ nF < wantF) => ret[c] = "Err:send_dm"

\* the send to the seller failed after the status was persisted
C14_Witness ==
    \E c \in Calls :
        /\ pc[c] = "done" /\ ret[c] = "Err:send_dm"
        /\ Loaded(c, {"Active"})
        /\ SavesOf(c) # {}
        /\ DmsOfAction(c, "FiatSent") = {}

\* the calls that wrote the row of order `id`
WritersOf(id) == {c \in Calls : \E i \in SavesOf(c) : saves[i][1] = id}
\* the calls that sent a FiatSent message about order `id`
NotifiersOf(id) ==
    {c \in Calls : \E i \in DmsOfAction(c, "FiatSent") :
                       dms[i].message.order_id = Some(id)}

(***************************************************************************)
(* C19 (no concurrent mutation): of the handlers in flight on one order    *)
(* id, at most one performs the write to FiatSent and at most one sends    *)
(* FiatSent notifications.                                                 *)
(***************************************************************************)
C19_AtMostOneMutator ==
    \A id \in DOMAIN orders :
        PartiesAssigned(orders[id])
        => /\ Cardinality(WritersOf(id)) <= 1
           /\ Cardinality(NotifiersOf(id)) <= 1

\* the FiatSent messages about order `id` delivered to its seller
SellerNotifications(id) ==
    {i \in 1..Len(dms) :
        /\ dms[i].message.action = "FiatSent"
        /\ dms[i].message.order_id = Some(id)
        /\ Some(to_bech32(dms[i].to)) = orders[id].seller_pubkey}

(***************************************************************************)
(* C20 (at most one transition in sequence): over calls on one order that  *)
(* do not overlap and do not fail, whoever the senders are, the status is  *)
(* written to FiatSent at most once and the seller receives at most one    *)
(* FiatSent message.                                                       *)
(***************************************************************************)
C20_AtMostOnceInSequence ==
    \A id \in DOMAIN orders :
        (PartiesAssigned(orders[id]) /\ \A c \in Calls : ret[c] \in {"none", "Ok"})
        => /\ Cardinality({i \in 1..Len(saves) : saves[i][1] = id}) <= 1
           /\ Cardinality(SellerNotifications(id)) <= 1

(***************************************************************************)
(* C16 (payment amount selection): in every send request the node          *)
(* received, if the invoice of the request names an amount the request's   *)
(* amt is left at its default, not the caller's amount, and if the invoice *)
(* names none the request's amt is the caller's amount.                    *)
(***************************************************************************)
C16_AmountSelection ==
    \A i \in 1..Len(node_log) :
        LET request == node_log[i].request
            invoice == decode_invoice(request.payment_request)
            fallback_amount == amount[node_log[i].call]
        IN /\ invoice.ok
           /\ invoice.amount_milli_satoshis # None
              => (request.amt = DefaultAmt /\ request.amt # fallback_amount)
           /\ invoice.amount_milli_satoshis = None
              => request.amt = fallback_amount

\* one request sent for an invoice with an amount, one for an invoice without
C16_Witness ==
    \E i, j \in 1..Len(node_log) :
        /\ decode_invoice(node_log[i].request.payment_request).amount_milli_satoshis # None
        /\ decode_invoice(node_log[j].request.payment_request).amount_milli_satoshis = None
        /\ node_log[j].request.amt = amount[node_log[j].call]

ReturnedOk(h, op) == hold_local[h].op = op /\ hold_ret[h].kind = "Ok"
\* the requests of call h the node received, as positions of hold_log
HoldRequestsOf(h) == {i \in 1..Len(hold_log) : hold_log[i].call = h}
\* the hash of the invoice a settle call with hex input `s` is about
SettledHash(s) == raw_sha256(Unwrap(from_hex(s)))

\* the settle calls about the invoice with hash k that returned Ok
OkSettles(k) ==
    {h \in HoldCalls : ReturnedOk(h, "settle") /\ SettledHash(hold_local[h].input) = k}
\* the cancel calls about the invoice with hash k that returned Ok
OkCancels(k) ==
    {h \in HoldCalls : ReturnedOk(h, "cancel") /\ hold_local[h].hash = k}

(***************************************************************************)
(* C12 (settle and cancel are exclusive and happen at most once): for      *)
(* every hold invoice, over any settle and cancel calls, at most one       *)
(* settle call returns Ok, at most one cancel call returns Ok, and never   *)
(* one of each; a settle call on a Canceled invoice and a cancel call on a *)
(* Settled one do not return Ok, and a Settled or Canceled invoice stays   *)
(* as it is.                                                               *)
(***************************************************************************)
C12_SettleCancelExclusive ==
    /\ [](\A k \in Hashes :
            /\ Cardinality(OkSettles(k)) <= 1
            /\ Cardinality(OkCancels(k)) <= 1
            /\ OkSettles(k) = {} \/ OkCancels(k) = {}
            /\ OkSettles(k) # {} => (k \in DOMAIN invoices /\ invoices[k] = "Settled")
            /\ OkCancels(k) # {} => (k \in DOMAIN invoices /\ invoices[k] = "Canceled"))
    /\ [][\A k \in DOMAIN invoices :
            /\ invoices[k] \in {"Settled", "Canceled"} => invoices'[k] = invoices[k]
            /\ \A h \in HoldCalls :
                  /\ (hpc[h] = "settle" /\ SettledHash(hold_local[h].input) = k
                      /\ invoices[k] = "Canceled")
                     => hold_ret'[h].kind # "Ok"
                  /\ (hpc[h] = "cancel" /\ hold_local[h].hash = k
                      /\ invoices[k] = "Settled")
                     => hold_ret'[h].kind # "Ok"]_vars

\* an invoice canceled, then a settle of it refused by the node
C12_Witness ==
    \E h, g \in HoldCalls :
        /\ ReturnedOk(h, "cancel")
        /\ hold_local[g].op = "settle"
        /\ from_hex(hold_local[g].input) # None
        /\ SettledHash(hold_local[g].input) = hold_local[h].hash
        /\ hold_ret[g].kind = "Panic"
        /\ hold_ret[g].val = "Failed to settle hold invoice"
        /\ \E i \in HoldRequestsOf(h), j \in HoldRequestsOf(g) :
              i < j /\ hold_log[j].reply = "rejected"

(***************************************************************************)
(* C13 (the preimage binds the invoice): a create_hold_invoice that        *)
(* returns hands back a preimage p and a payment hash that is the digest   *)
(* of p and the hash of the invoice it had the node add; an invoice is     *)
(* Settled only after a settle call given the hex of its preimage; a       *)
(* settle call given anything else leaves the invoice as it is, and does   *)
(* not return Ok unless the node holds an invoice for that other preimage; *)
(* a settle call given p whose request reaches the node while the invoice  *)
(* is Open settles the invoice and returns Ok.                             *)
(***************************************************************************)
C13_PreimageBindsInvoice ==
    /\ [](\A h \in HoldCalls :
            /\ ReturnedOk(h, "create")
               => LET r == hold_ret[h].val IN
                  /\ r.preimage \in Preimages
                  /\ r.hash = raw_sha256(r.preimage)
                  /\ r.hash \in DOMAIN invoices
                  /\ \E i \in HoldRequestsOf(h) :
                        /\ hold_log[i].op = "add"
                        /\ hold_log[i].reply = "accepted"
                        /\ hold_log[i].arg.hash = r.hash
            /\ ReturnedOk(h, "settle")
               => SettledHash(hold_local[h].input) \in DOMAIN invoices)
    /\ [](\A k \in DOMAIN invoices :
            invoices[k] = "Settled"
            => \E h \in HoldCalls :
                  /\ ReturnedOk(h, "settle")
                  /\ \E p \in Preimages :
                        raw_sha256(p) = k /\ hold_local[h].input = to_hex(p))
    /\ [][\A h \in HoldCalls :
            hpc[h] = "settle"
            => LET k == SettledHash(hold_local[h].input) IN
               /\ \A j \in DOMAIN invoices :
                     (j # k /\ hpc'[h] # "settle") => invoices'[j] = invoices[j]
               /\ (/\ HoldRequestsOf(h)' # {}
                   /\ k \in DOMAIN invoices
                   /\ invoices[k] = "Open")
                  => (invoices'[k] = "Settled" /\ hold_ret'[h].kind = "Ok")]_vars

\* an invoice created, a settle with another preimage refused, a settle
\* with its own preimage accepted
C13_Witness ==
    \E h, g, f \in HoldCalls :
        /\ ReturnedOk(h, "create")
        /\ hold_local[g].op = "settle" /\ hold_ret[g].kind = "Panic"
        /\ from_hex(hold_local[g].input) # None
        /\ SettledHash(hold_local[g].input) # hold_ret[h].val.hash
        /\ ReturnedOk(f, "settle")
        /\ SettledHash(hold_local[f].input) = hold_ret[h].val.hash
        /\ invoices[hold_ret[h].val.hash] = "Settled"

(***************************************************************************)
(* C15 (failures are error results): no hold-invoice call aborts the task  *)
(* that made it, whatever fails (hex that does not decode, a request the   *)
(* node rejects); and a call given hex that does not decode sends the node *)
(* no request.                                                             *)
(***************************************************************************)
C15_FailuresAreErrorResults ==
    \A h \in HoldCalls :
        /\ hold_ret[h].kind = "Panic"
           => hold_ret[h].val \notin
                 {"Wrong preimage", "Wrong payment hash",
                  "Failed to add hold invoice", "Failed to settle hold invoice",
                  "Failed to cancel hold invoice"}
        /\ (hold_local[h].op \in {"settle", "cancel"}
            /\ from_hex(hold_local[h].input) = None)
           => HoldRequestsOf(h) = {}

\* the invoice carries a state the enum knows
KnownState(invoice) == from_i32(invoice.state) # None

(***************************************************************************)
(* C17 (the subscription forwards faithfully): for every subscription, the *)
(* listener has received, once each and in the order the node delivered    *)
(* them, the invoices of the stream whose state is Open, Settled, Canceled *)
(* or Accepted, each tagged with the subscribed hash: all of them while    *)
(* the task waits for the next invoice and once the stream has ended and   *)
(* the task has returned, all but the one in hand while that one is being  *)
(* forwarded.  Only a task that panicked may have left its last invoice    *)
(* unforwarded.                                                            *)
(***************************************************************************)
C17_SubscriptionForwards ==
    \A s \in Subs :
        LET known == SelectSeq(invoice_stream[s], KnownState)
            n == Len(known)
            m == Len(invoice_listener[s])
        IN /\ m <= n
           /\ \A i \in 1..m :
                 invoice_listener[s][i] =
                    [hash |-> r_hash[s], state |-> Unwrap(from_i32(known[i].state))]
           /\ spc[s] \in {"recv", "returned"} => m = n
           /\ spc[s] = "forward" => m = n - 1
           /\ spc[s] = "panicked" => m >= n - 1
           /\ spc[s] \in {"idle", "subscribe"} => Len(invoice_stream[s]) = 0

\* two subscriptions on two hashes, each returned after forwarding the one
\* invoice its stream delivered
C17_Witness ==
    \E s, t \in Subs :
        /\ r_hash[s] # r_hash[t]
        /\ spc[s] = "returned" /\ spc[t] = "returned"
        /\ invoice_listener[s] = <<InvoiceMessage(r_hash[s], "Accepted")>>
        /\ invoice_listener[t] = <<InvoiceMessage(r_hash[t], "Open")>>
=============================================================================
